---- MODULE Spec2Model ----
(***************************************************************************)
(* FerrumSearch (src/src/main.rs): an in-memory full-text search engine.   *)
(* The engine is five tables, each behind its own RwLock: documents,       *)
(* inverted_index, word_frequencies, document_lengths, total_documents.    *)
(*                                                                         *)
(* Text is a sequence of one-character strings.  Tokens are such sequences *)
(* too.  f32 scores are fixed-point integers (see the scoring section).    *)
(***************************************************************************)
EXTENDS Integers, Sequences, FiniteSets, TLC

(***************************************************************************)
(* Option<T> is a set with at most one member.                             *)
(***************************************************************************)
None == {}
Some(x) == {x}
unwrap_or(opt, default) == IF opt = {} THEN default ELSE CHOOSE x \in opt : TRUE

(***************************************************************************)
(* Generic sequence helpers.                                               *)
(***************************************************************************)
Range(s) == {s[i] : i \in 1..Len(s)}

RECURSIVE SelectSeqOp(_, _)
\* Iterator::filter / Vec::retain over a sequence, keeping the members of keep.
SelectSeqOp(s, keep) ==
    IF s = <<>> THEN <<>>
    ELSE IF Head(s) \in keep THEN <<Head(s)>> \o SelectSeqOp(Tail(s), keep)
         ELSE SelectSeqOp(Tail(s), keep)

Count(s, x) == Cardinality({i \in 1..Len(s) : s[i] = x})

Min(a, b) == IF a <= b THEN a ELSE b

\* The permutations of a finite set, as sequences: the orders in which a
\* std::collections::HashMap may hand out its entries.
Perms(S) ==
    {p \in [1..Cardinality(S) -> S] : \A i, j \in 1..Cardinality(S) : i # j => p[i] # p[j]}

(***************************************************************************)
(* Characters.  The alphabet the model draws texts from, with the three    *)
(* char predicates the tokenizer uses.                                     *)
(***************************************************************************)
LowerLetters == {"a", "b", "e", "k", "r", "s", "t", "u", "w"}
UpperLetters == {"R", "W"}
Whitespace == {" "}
Punctuation == {"-"}

is_alphanumeric(c) == c \in LowerLetters \cup UpperLetters
is_whitespace(c) == c \in Whitespace

\* char::to_lowercase on the alphabet.
to_lowercase_char(c) ==
    CASE c = "R" -> "r"
      [] c = "W" -> "w"
      [] OTHER -> c

to_lowercase(text) == [i \in 1..Len(text) |-> to_lowercase_char(text[i])]

RECURSIVE split_whitespace(_, _)
\* str::split_whitespace: the maximal runs of non-whitespace characters.
\* cur is the run being read.
split_whitespace(text, cur) ==
    IF text = <<>> THEN (IF cur = <<>> THEN <<>> ELSE <<cur>>)
    ELSE IF is_whitespace(Head(text))
         THEN (IF cur = <<>> THEN <<>> ELSE <<cur>>) \o split_whitespace(Tail(text), <<>>)
         ELSE split_whitespace(Tail(text), Append(cur, Head(text)))

\* The word-length threshold of tokenize: words of length <= 2 are dropped.
MinWordLen == 2

\* FerrumSearch::tokenize: lowercase, DROP every character that is neither
\* alphanumeric nor whitespace, split on whitespace, keep words longer than 2.
tokenize(text) ==
    LET lowered == to_lowercase(text)
        kept == SelectSeq(lowered, LAMBDA c : is_alphanumeric(c) \/ is_whitespace(c))
        words == split_whitespace(kept, <<>>)
    IN SelectSeq(words, LAMBDA w : Len(w) > MinWordLen)

(***************************************************************************)
(* FerrumSearch::edit_distance: the Levenshtein dynamic programme, row by  *)
(* row.  A row is dp[i][0..n] stored at indices 1..n+1.                    *)
(***************************************************************************)
RECURSIVE EditRow(_, _, _, _, _)
\* Row i from row i-1 (prev): cells j..n appended to row, which holds 0..j-1.
EditRow(a, b, i, prev, row) ==
    LET j == Len(row)
    IN IF j > Len(b) THEN row
       ELSE LET cost == IF a[i] = b[j] THEN 0 ELSE 1
                cell == Min(Min(prev[j + 1] + 1, row[j] + 1), prev[j] + cost)
            IN EditRow(a, b, i, prev, Append(row, cell))

RECURSIVE EditRows(_, _, _, _)
EditRows(a, b, i, prev) ==
    IF i > Len(a) THEN prev
    ELSE EditRows(a, b, i + 1, EditRow(a, b, i, prev, <<i>>))

edit_distance(a, b) ==
    EditRows(a, b, 1, [j \in 1..(Len(b) + 1) |-> j - 1])[Len(b) + 1]

(***************************************************************************)
(* Maps (HashMap) as functions.                                            *)
(***************************************************************************)
EmptyMap == << >>

Put(f, k, v) == [x \in (DOMAIN f) \cup {k} |-> IF x = k THEN v ELSE f[x]]
Del(f, k) == [x \in (DOMAIN f) \ {k} |-> f[x]]

(***************************************************************************)
(* Inputs.  Texts, document bodies and ids the operations are called with. *)
(***************************************************************************)
TxtEmpty == << >>
TxtRust == <<"R", "u", "s", "t">>
TxtRustWeb == <<"r", "u", "s", "t", " ", "w", "e", "b">>
TxtWeb == <<"W", "e", "b">>
TxtRest == <<"r", "e", "s", "t">>
TxtRusk == <<"r", "u", "s", "k">>
TxtShort == <<"a", "b", " ", "-">>

MetaWeb == [category |-> "web"]
MetaDb == [category |-> "db"]

\* title, content and metadata of the documents callers submit.
Bodies ==
    { [title |-> TxtRust, content |-> TxtRustWeb, metadata |-> MetaWeb],
      [title |-> TxtWeb, content |-> TxtEmpty, metadata |-> EmptyMap],
      [title |-> TxtRest, content |-> TxtShort, metadata |-> EmptyMap] }

\* Ids chosen by callers, and the ids Uuid::new_v4() may produce.
DocIds == {"d1"}
Uuids == {"u1", "u2"}
AllIds == DocIds \cup Uuids

\* Lexicographic order of the id strings (Vec<String>::sort in fuzzy_search_token).
IdOrder == <<"d1", "u1", "u2">>
IdRank(id) == CHOOSE i \in 1..Len(IdOrder) : IdOrder[i] = id

\* The Document values add_document is called with; id "" asks for a fresh id.
Documents ==
    { [id |-> i, title |-> b.title, content |-> b.content,
       metadata |-> b.metadata, timestamp |-> 0] : i \in DocIds \cup {""}, b \in Bodies }

\* The batches bulk_import is called with are drawn from these.
BulkDocuments ==
    {d \in Documents : \/ d.id = "" /\ d.title = TxtWeb
                       \/ d.id = "d1" /\ d.title = TxtRest}

\* text = format!("{} {}", document.title, document.content)
DocText(doc) == doc.title \o <<" ">> \o doc.content

(***************************************************************************)
(* State.                                                                  *)
(***************************************************************************)
VARIABLES
    documents,          \* HashMap<String, Document>
    inverted_index,     \* HashMap<String, Vec<String>>: token -> posting list
    word_frequencies,   \* HashMap<String, HashMap<String, f32>>: id -> token -> tf
    document_lengths,   \* HashMap<String, usize>
    total_documents,    \* usize
    overflow_checks,    \* the build panics on usize overflow (debug) or wraps (release)
    last,               \* the call that returned last: [op, arg]
    resp,               \* what that call returned
    writer_priority,    \* the platform's RwLock makes new readers wait behind a waiting writer
    rd,                 \* lock -> the threads holding it for reading
    wr,                 \* lock -> the thread holding it for writing, if any
    pc,                 \* thread -> where it is in its call
    call,               \* thread -> the call it is in
    tmp,                \* thread -> the locals of that call
    ret                 \* thread -> what its last call returned

engine == <<documents, inverted_index, word_frequencies, document_lengths, total_documents>>
threadvars == <<writer_priority, rd, wr, pc, call, tmp, ret>>
vars == <<documents, inverted_index, word_frequencies, document_lengths, total_documents,
          overflow_checks, last, resp, writer_priority, rd, wr, pc, call, tmp, ret>>

\* The engine as one record, for operators that transform it.
Engine ==
    [documents |-> documents, inverted_index |-> inverted_index,
     word_frequencies |-> word_frequencies, document_lengths |-> document_lengths,
     total_documents |-> total_documents]

\* FerrumSearch::new
NewEngine ==
    [documents |-> EmptyMap, inverted_index |-> EmptyMap, word_frequencies |-> EmptyMap,
     document_lengths |-> EmptyMap, total_documents |-> 0]

(***************************************************************************)
(* f32 term frequencies: count / doc_length, kept as a fraction in lowest  *)
(* terms (equal fractions are equal floats).                               *)
(***************************************************************************)
RECURSIVE GCD(_, _)
GCD(a, b) == IF b = 0 THEN a ELSE GCD(b, a % b)

Frac(n, d) == [num |-> n \div GCD(n, d), den |-> d \div GCD(n, d)]

(***************************************************************************)
(* Indexing operations.                                                    *)
(***************************************************************************)
\* remove_document_from_index done wrongly: the posting lists that become empty
\* are kept.
remove_document_from_index_keeping_empty(doc_id, index, frequencies) ==
    [index |-> [w \in DOMAIN index |-> SelectSeqOp(index[w], AllIds \ {doc_id})],
     frequencies |-> Del(frequencies, doc_id)]

\* remove_document_from_index: drop the tf row, strip the id from every posting
\* list that contains it, drop the lists that become empty.
remove_document_from_index(doc_id, index, frequencies) ==
    LET words_to_clean == {w \in DOMAIN index : doc_id \in Range(index[w])}
        retained(w) == SelectSeqOp(index[w], AllIds \ {doc_id})
        emptied == {w \in words_to_clean : retained(w) = <<>>}
    IN [index |-> [w \in (DOMAIN index) \ emptied |->
                      IF w \in words_to_clean THEN retained(w) ELSE index[w]],
        frequencies |-> Del(frequencies, doc_id)]

RECURSIVE PushTokensOnce(_, _, _)
\* PushTokens done wrongly: the id is pushed once per distinct token.
PushTokensOnce(index, tokens, doc_id) ==
    IF tokens = <<>> THEN index
    ELSE LET t == Head(tokens)
             list == IF t \in DOMAIN index THEN index[t] ELSE <<>>
             next == IF doc_id \in Range(list) THEN index
                     ELSE Put(index, t, Append(list, doc_id))
         IN PushTokensOnce(next, Tail(tokens), doc_id)

RECURSIVE PushTokens(_, _, _)
\* The loop over tokens in add_document: one push of doc_id per occurrence.
PushTokens(index, tokens, doc_id) ==
    IF tokens = <<>> THEN index
    ELSE LET t == Head(tokens)
             list == IF t \in DOMAIN index THEN index[t] ELSE <<>>
         IN PushTokens(Put(index, t, Append(list, doc_id)), Tail(tokens), doc_id)

\* doc_frequencies of add_document: tf = count / doc_length per distinct token.
DocFrequencies(tokens) ==
    [t \in Range(tokens) |-> Frac(Count(tokens, t), Len(tokens))]

\* AddStore done wrongly: the counter is incremented on an update too.
AddStoreAlwaysCounting(e, document) ==
    [e EXCEPT !.documents = Put(e.documents, document.id, document),
              !.total_documents = @ + 1]

\* add_document, first critical section (documents, total_documents).
AddStore(e, document) ==
    LET is_new == document.id \notin DOMAIN e.documents
    IN [e EXCEPT !.documents = Put(e.documents, document.id, document),
                 !.total_documents = IF is_new THEN @ + 1 ELSE @]

\* AddIndex done wrongly: the old entries of the id are not removed first.
AddIndexWithoutPurge(e, doc_id, tokens) ==
    [e EXCEPT !.inverted_index = PushTokens(e.inverted_index, tokens, doc_id),
              !.document_lengths = Put(e.document_lengths, doc_id, Len(tokens)),
              !.word_frequencies = Put(e.word_frequencies, doc_id, DocFrequencies(tokens))]

\* add_document, second critical section (inverted_index, word_frequencies,
\* document_lengths).
AddIndex(e, doc_id, tokens) ==
    LET purged == remove_document_from_index(doc_id, e.inverted_index, e.word_frequencies)
    IN [e EXCEPT !.inverted_index = PushTokens(purged.index, tokens, doc_id),
                 !.document_lengths = Put(e.document_lengths, doc_id, Len(tokens)),
                 !.word_frequencies = Put(purged.frequencies, doc_id, DocFrequencies(tokens))]

\* add_document(document) with uuid the value Uuid::new_v4() returns if asked.
add_document(e, document, uuid) ==
    LET doc == IF document.id = "" THEN [document EXCEPT !.id = uuid] ELSE document
        tokens == tokenize(DocText(doc))
    IN AddIndex(AddStore(e, doc), doc.id, tokens)

\* remove_document, first critical section.
\* RemoveStore done wrongly: the counter is decremented for an absent id too.
RemoveStoreAlwaysCounting(e, doc_id) ==
    [e EXCEPT !.documents = Del(e.documents, doc_id),
              !.total_documents = IF @ = 0 THEN 0 ELSE @ - 1]

RemoveStore(e, doc_id) ==
    IF doc_id \in DOMAIN e.documents
    THEN [e EXCEPT !.documents = Del(e.documents, doc_id),
                   !.total_documents = IF @ = 0 THEN 0 ELSE @ - 1]
    ELSE e

\* RemoveIndex done wrongly: the index is left as it is.
RemoveIndexSkipped(e, doc_id) == e

\* remove_document, second critical section.
RemoveIndex(e, doc_id) ==
    LET purged == remove_document_from_index(doc_id, e.inverted_index, e.word_frequencies)
    IN [e EXCEPT !.inverted_index = purged.index, !.word_frequencies = purged.frequencies]

remove_document(e, doc_id) == RemoveIndex(RemoveStore(e, doc_id), doc_id)

RECURSIVE bulk_import(_, _, _)
\* bulk_import: add_document on each element; uuids[i] is the id drawn for the i-th.
bulk_import(e, docs, uuids) ==
    IF docs = <<>> THEN e
    ELSE bulk_import(add_document(e, Head(docs), Head(uuids)), Tail(docs), Tail(uuids))

clear_index(e) == NewEngine

(***************************************************************************)
(* Scores.  An f32 score is [nan, v]: v counts millionths when nan is      *)
(* FALSE.  ln is tabulated to three decimals at the odd integers, and      *)
(* ln(a / b) is taken as ln a - ln b, which keeps its sign and its order.  *)
(***************************************************************************)
Milli == 1000

K1Num == 3
K1Den == 2
BNum == 3
BDen == 4
AvgDocLen == 100

NaN == [nan |-> TRUE, v |-> 0]
Num(x) == [nan |-> FALSE, v |-> x]

\* ln(n) * 1000 for n = 1, 3, 5, ..., 41, at index (n + 1) / 2.
LnTable ==
    <<0, 1099, 1609, 1946, 2197, 2398, 2565, 2708, 2833, 2944, 3045,
      3135, 3219, 3296, 3367, 3434, 3497, 3555, 3611, 3664, 3714>>
LnMilli(n) == LnTable[(n + 1) \div 2]

\* idf = ((total_docs - df + 0.5) / (df + 0.5)).ln(), in thousandths; the
\* logarithm of a negative number is NaN.
Idf(total_docs, df) ==
    LET n == 2 * total_docs - 2 * df + 1
        d == 2 * df + 1
    IN IF n < 0 THEN NaN ELSE Num(LnMilli(n) - LnMilli(d))

\* bm25_tf = tf (k1 + 1) / (tf + k1 (1 - b + b doc_len / avg_doc_len)), in
\* thousandths, with numerator and denominator cleared of fractions.
Bm25Tf(tf, doc_len) ==
    (tf.num * (K1Num + K1Den) * BDen * AvgDocLen * Milli)
        \div (tf.num * K1Den * BDen * AvgDocLen
                + tf.den * K1Num * ((BDen - BNum) * AvgDocLen + BNum * doc_len))

FMul(idf, bm25) == IF idf.nan THEN NaN ELSE Num(idf.v * bm25)
FAdd(x, y) == IF x.nan \/ y.nan THEN NaN ELSE Num(x.v + y.v)

\* a.partial_cmp(&b) == Some(Less); every comparison with NaN is None.
FLess(a, b) == ~a.nan /\ ~b.nan /\ a.v < b.v

(***************************************************************************)
(* Candidates and scoring.                                                 *)
(***************************************************************************)
RECURSIVE SortIds(_)
\* The ids of a set in ascending string order.
SortIds(S) ==
    IF S = {} THEN <<>>
    ELSE LET m == CHOOSE x \in S : \A y \in S : IdRank(x) <= IdRank(y)
         IN <<m>> \o SortIds(S \ {m})

\* fuzzy_search_token: the posting list of the token and of every other key
\* within edit distance 1, sorted and deduplicated.
fuzzy_search_token(token, index) ==
    LET near == {w \in DOMAIN index : w = token \/ edit_distance(token, w) <= 1}
    IN SortIds(UNION {Range(index[w]) : w \in near})

\* matching_docs of search for one token.
MatchingDocs(token, fuzzy, index) ==
    IF fuzzy THEN fuzzy_search_token(token, index)
    ELSE IF token \in DOMAIN index THEN index[token] ELSE <<>>

\* The document has a tf for the token.
HasTf(doc_id, token, frequencies) ==
    doc_id \in DOMAIN frequencies /\ token \in DOMAIN frequencies[doc_id]

\* document_lengths.read().get(&doc_id).copied().unwrap_or(1)
DocLen(lengths, doc_id) == IF doc_id \in DOMAIN lengths THEN lengths[doc_id] ELSE 1

RECURSIVE ScoredPostings(_, _, _)
\* The postings search scores, in the order of its two loops: for each token
\* the entries of matching_docs whose document has a tf for the token.  Each
\* one reads document_lengths once.
ScoredPostings(tokens, fuzzy, e) ==
    IF tokens = <<>> THEN <<>>
    ELSE LET token == Head(tokens)
             matching == MatchingDocs(token, fuzzy, e.inverted_index)
         IN SelectSeq(matching, LAMBDA d : HasTf(d, token, e.word_frequencies))
                \o ScoredPostings(Tail(tokens), fuzzy, e)

\* The doc_len values a search reads when document_lengths does not change
\* while it scores.
LengthsRead(e, query) ==
    LET postings == ScoredPostings(tokenize(query.query), query.fuzzy, e)
    IN [i \in 1..Len(postings) |-> DocLen(e.document_lengths, postings[i])]

RECURSIVE ScoreDocsPositiveOnly(_, _, _, _, _)
\* ScoreDocs done wrongly: a score is added only when it is above zero.
ScoreDocsPositiveOnly(acc, matching, token, idf, e) ==
    IF matching = <<>> THEN acc
    ELSE LET doc_id == Head(matching)
             doc_len == Head(acc.lens)
             score == FMul(idf, Bm25Tf(e.word_frequencies[doc_id][token], doc_len))
             old == IF doc_id \in DOMAIN acc.scores THEN acc.scores[doc_id] ELSE Num(0)
             scored == HasTf(doc_id, token, e.word_frequencies)
             next == IF scored /\ FLess(Num(0), score)
                     THEN [scores |-> Put(acc.scores, doc_id, FAdd(old, score)),
                           lens |-> Tail(acc.lens)]
                     ELSE IF scored THEN [acc EXCEPT !.lens = Tail(@)]
                     ELSE acc
         IN ScoreDocsPositiveOnly(next, Tail(matching), token, idf, e)

RECURSIVE ScoreDocs(_, _, _, _, _)
\* The inner loop of search: one addition per entry of matching_docs whose
\* document has a tf for the token itself.  acc holds the score map and the
\* doc_len values still to be used, one per scored posting.
ScoreDocs(acc, matching, token, idf, e) ==
    IF matching = <<>> THEN acc
    ELSE LET doc_id == Head(matching)
             doc_len == Head(acc.lens)
             score == FMul(idf, Bm25Tf(e.word_frequencies[doc_id][token], doc_len))
             old == IF doc_id \in DOMAIN acc.scores THEN acc.scores[doc_id] ELSE Num(0)
             next == IF HasTf(doc_id, token, e.word_frequencies)
                     THEN [scores |-> Put(acc.scores, doc_id, FAdd(old, score)),
                           lens |-> Tail(acc.lens)]
                     ELSE acc
         IN ScoreDocs(next, Tail(matching), token, idf, e)

RECURSIVE ScoreTokens(_, _, _, _)
\* The outer loop of search over the query tokens.
ScoreTokens(acc, tokens, fuzzy, e) ==
    IF tokens = <<>> THEN acc.scores
    ELSE LET token == Head(tokens)
             matching == MatchingDocs(token, fuzzy, e.inverted_index)
             df == Len(matching)
             next == IF df = 0 THEN acc
                     ELSE ScoreDocs(acc, matching, token, Idf(e.total_documents, df), e)
         IN ScoreTokens(next, Tail(tokens), fuzzy, e)

\* ApplyFilters done wrongly: nothing is removed.
ApplyFiltersKeepingAll(scores, filters, docs) == scores

\* scores.retain(..): with filters, keep the documents that are in the table
\* and carry every (key, value) of the filters.
ApplyFilters(scores, filters, docs) ==
    IF filters = None THEN scores
    ELSE LET wanted == unwrap_or(filters, EmptyMap)
             ok(d) == /\ d \in DOMAIN docs
                      /\ \A k \in DOMAIN wanted :
                            k \in DOMAIN docs[d].metadata /\ docs[d].metadata[k] = wanted[k]
         IN [d \in {x \in DOMAIN scores : ok(x)} |-> scores[d]]

\* The score map of a query after filtering, when the scoring loop read the
\* doc_len values lens.
ScoresRead(e, query, lens) ==
    ApplyFilters(ScoreTokens([scores |-> EmptyMap, lens |-> lens],
                             tokenize(query.query), query.fuzzy, e),
                 query.filters, e.documents)

\* The score map of a query on an engine that does not change meanwhile.
Scores(e, query) == ScoresRead(e, query, LengthsRead(e, query))

(***************************************************************************)
(* Ranking, pagination, projection.                                        *)
(***************************************************************************)
RECURSIVE InsertTail(_, _, _)
\* One step of the insertion sort behind sort_by on short slices: x moves left
\* past every entry it is Less than under the comparator
\* |a, b| b.1.partial_cmp(&a.1).unwrap_or(Equal), i.e. past lower scores.
InsertTail(sorted, x, scores) ==
    IF sorted = <<>> THEN <<x>>
    ELSE LET prev == sorted[Len(sorted)]
         IN IF FLess(scores[prev], scores[x])
            THEN Append(InsertTail(SubSeq(sorted, 1, Len(sorted) - 1), x, scores), prev)
            ELSE Append(sorted, x)

RECURSIVE SortByScore(_, _, _)
\* sorted_results.sort_by(..): stable, descending by score.
SortByScore(sorted, rest, scores) ==
    IF rest = <<>> THEN sorted
    ELSE SortByScore(InsertTail(sorted, Head(rest), scores), Tail(rest), scores)

DefaultPage == 1
DefaultPerPage == 10
MaxContentLen == 200
HighlightContext == 50
MaxHighlights == 3
Ellipsis == <<".", ".", ".">>

\* truncate_content
truncate_content(content, max_len) ==
    IF Len(content) <= max_len THEN content
    ELSE SubSeq(content, 1, max_len) \o Ellipsis

\* str::find: the 0-based offset of the first occurrence of needle, or None.
Find(hay, needle) ==
    LET at == {i \in 0..(Len(hay) - Len(needle)) :
                   SubSeq(hay, i + 1, i + Len(needle)) = needle}
    IN IF at = {} THEN None ELSE Some(CHOOSE i \in at : \A j \in at : i <= j)

RECURSIVE HighlightsOf(_, _)
HighlightsOf(full_text, tokens) ==
    IF tokens = <<>> THEN <<>>
    ELSE LET token == Head(tokens)
             found == Find(to_lowercase(full_text), to_lowercase(token))
             start == unwrap_or(found, 0)
             context_start == IF start < HighlightContext THEN 0 ELSE start - HighlightContext
             context_end == Min(start + Len(token) + HighlightContext, Len(full_text))
             body == SubSeq(full_text, context_start + 1, context_end)
             left == IF context_start > 0 THEN Ellipsis \o body ELSE body
             both == IF context_end < Len(full_text) THEN left \o Ellipsis ELSE left
         IN (IF found = None THEN <<>> ELSE <<both>>) \o HighlightsOf(full_text, Tail(tokens))

\* generate_highlights: one snippet per query token found in the text, at most 3.
generate_highlights(doc, tokens) ==
    LET all == HighlightsOf(DocText(doc), tokens)
    IN SubSeq(all, 1, Min(Len(all), MaxHighlights))

\* The SearchResult of one ranked document.
Project(doc, score, query, tokens) ==
    [id |-> doc.id, title |-> doc.title,
     content |-> truncate_content(doc.content, MaxContentLen),
     score |-> score,
     highlights |-> IF query.highlight THEN generate_highlights(doc, tokens) ELSE <<>>,
     metadata |-> doc.metadata]

RECURSIVE Results(_, _, _, _, _)
\* The projection loop: ranked ids absent from the document table are skipped.
Results(ids, scores, docs, query, tokens) ==
    IF ids = <<>> THEN <<>>
    ELSE (IF Head(ids) \in DOMAIN docs
          THEN <<Project(docs[Head(ids)], scores[Head(ids)], query, tokens)>>
          ELSE <<>>) \o Results(Tail(ids), scores, docs, query, tokens)

\* What a call hands back: Ok(value), or a panic that unwinds out of it.
Ok(value) == [tag |-> "ok", value |-> value]
Panic == [tag |-> "panic"]

\* What search(query) returns from the score map scores, when the map is
\* iterated in the order iter (a permutation of its keys).  checked: the build
\* has overflow checks, so usize arithmetic that overflows panics; otherwise it
\* wraps.  query_time_ms is left out of the response.
Respond(e, query, scores, iter, checked) ==
    LET tokens == tokenize(query.query)
        page == unwrap_or(query.page, DefaultPage)
        per_page == unwrap_or(query.per_page, DefaultPerPage)
        sorted_results == SortByScore(<<>>, iter, scores)
        total_hits == Len(sorted_results)
        total_pages == (total_hits + per_page - 1) \div per_page
        start == (page - 1) * per_page
        end == Min(start + per_page, total_hits)
        \* skip(start).take(end - start); a wrapped end - start exceeds any length
        skipped == SubSeq(sorted_results, start + 1, total_hits)
        taken == IF end < start THEN skipped
                 ELSE SubSeq(skipped, 1, Min(end - start, Len(skipped)))
    IN IF tokens = <<>>
       THEN Ok([results |-> <<>>, total_hits |-> 0, page |-> page, per_page |-> per_page,
                total_pages |-> 0])
       ELSE IF end < start /\ checked THEN Panic
       ELSE Ok([results |-> Results(taken, scores, e.documents, query, tokens),
                total_hits |-> total_hits, page |-> page, per_page |-> per_page,
                total_pages |-> total_pages])

\* search(query) on an engine e that does not change meanwhile.
search(e, query, iter, checked) == Respond(e, query, Scores(e, query), iter, checked)

(***************************************************************************)
(* Autocomplete, suggest, stats.                                           *)
(***************************************************************************)
\* The characters in code-point order (String's Ord).
CharOrder == <<" ", "-", ".", "R", "W", "a", "b", "e", "k", "r", "s", "t", "u", "w">>
CharRank(c) == CHOOSE i \in 1..Len(CharOrder) : CharOrder[i] = c

RECURSIVE StrLess(_, _)
\* a < b for strings.
StrLess(a, b) ==
    IF b = <<>> THEN FALSE
    ELSE IF a = <<>> THEN TRUE
    ELSE IF Head(a) = Head(b) THEN StrLess(Tail(a), Tail(b))
    ELSE CharRank(Head(a)) < CharRank(Head(b))

RECURSIVE SortStrings(_)
\* Vec<String>::sort of a list without repetitions, given as a set.
SortStrings(S) ==
    IF S = {} THEN <<>>
    ELSE LET m == CHOOSE x \in S : \A y \in S \ {x} : StrLess(x, y)
         IN <<m>> \o SortStrings(S \ {m})

starts_with(word, prefix) ==
    Len(prefix) <= Len(word) /\ SubSeq(word, 1, Len(prefix)) = prefix

\* autocomplete done wrongly: take(limit) is left out.
autocomplete_without_take(index, prefix, limit, iter) ==
    SortStrings(Range(SelectSeq(iter, LAMBDA w : starts_with(w, to_lowercase(prefix)))))

\* autocomplete(prefix, limit) when index.keys() yields the keys in the order
\* iter: filter, take(limit), then sort.
autocomplete(index, prefix, limit, iter) ==
    LET matching == SelectSeq(iter, LAMBDA w : starts_with(w, to_lowercase(prefix)))
        taken == SubSeq(matching, 1, Min(limit, Len(matching)))
    IN SortStrings(Range(taken))

MaxSuggestPerToken == 3
MaxSuggestions == 5

RECURSIVE SuggestLookups(_, _)
\* The ids suggest looks up in the document table, in order: for each token the
\* first 3 of its fuzzy matches.
SuggestLookups(index, tokens) ==
    IF tokens = <<>> THEN <<>>
    ELSE LET fuzzy_matches == fuzzy_search_token(Head(tokens), index)
         IN SubSeq(fuzzy_matches, 1, Min(MaxSuggestPerToken, Len(fuzzy_matches)))
                \o SuggestLookups(index, Tail(tokens))

RECURSIVE TitlesOf(_, _)
\* The titles of the looked-up ids that are in the document table.
TitlesOf(ids, docs) ==
    IF ids = <<>> THEN <<>>
    ELSE (IF Head(ids) \in DOMAIN docs THEN <<docs[Head(ids)].title>> ELSE <<>>)
            \o TitlesOf(Tail(ids), docs)

\* suggest(query) on an engine that does not change meanwhile.
suggest(e, text) ==
    LET suggestions == TitlesOf(SuggestLookups(e.inverted_index, tokenize(text)), e.documents)
    IN SubSeq(suggestions, 1, Min(MaxSuggestions, Len(suggestions)))

BytesPerDocument == 1024

\* get_stats: index_size_mb is estimated_size / 1024 / 1024, kept as a fraction;
\* last_updated (the wall clock) is left out.
get_stats(total_docs) ==
    [total_documents |-> total_docs,
     index_size_mb |-> [num |-> total_docs * BytesPerDocument,
                        den |-> BytesPerDocument * BytesPerDocument],
     version |-> "1.0.0"]

(***************************************************************************)
(* Threads and locks.  Each table has its own RwLock.                      *)
(***************************************************************************)
Locks == {"documents", "inverted_index", "word_frequencies", "document_lengths",
          "total_documents"}

\* The threads that call the engine concurrently: two that write, two that read.
Threads == {"w1", "w2", "r1", "r2"}
Writers == {"w1", "w2"}

\* A call: its operation and its argument (a Document, an id, a SearchQuery or
\* a text), each an Option so that all calls have one shape.
MkCall(op, doc, id, query, text, limit) ==
    [op |-> op, doc |-> doc, id |-> id, query |-> query, text |-> text, limit |-> limit]
NoCall == MkCall("none", None, None, None, None, None)

\* The locals of a call: is_new or the removal's is_some(), total_docs, the ids
\* suggest has still to look up and the titles it has collected.
NoLocals == [flag |-> FALSE, n |-> 0, lens |-> << >>, ids |-> << >>, out |-> << >>]

(***************************************************************************)
(* Calls made one at a time: each action is one public operation, from     *)
(* call to return.                                                         *)
(***************************************************************************)
MaxBulk == 2
MaxPage == 2
MaxPerPage == 1

QueryTexts == {TxtRust, TxtRustWeb, TxtRusk, TxtShort}

\* The SearchQuery values search is called with: every text, exact and fuzzy,
\* with the default paging and no filters; one text with explicit pages, page
\* sizes (both at least 1) and filters.
Queries ==
    LET all == [query : QueryTexts, fuzzy : BOOLEAN,
                page : {None} \cup {Some(n) : n \in 1..MaxPage},
                per_page : {None} \cup {Some(n) : n \in 1..MaxPerPage},
                filters : {None, Some(MetaWeb), Some(MetaDb)}, sort_by : {None},
                highlight : BOOLEAN]
        plain(q) == q.page = None /\ q.per_page = None /\ q.filters = None /\ q.highlight
        paged(q) == q.query = TxtRustWeb /\ ~q.fuzzy /\ q.page # None /\ q.per_page # None
                        /\ q.highlight = (q.filters = None)
    IN {q \in all : plain(q) \/ paged(q)}

SetEngine(e) ==
    /\ documents' = e.documents
    /\ inverted_index' = e.inverted_index
    /\ word_frequencies' = e.word_frequencies
    /\ document_lengths' = e.document_lengths
    /\ total_documents' = e.total_documents

Returned(op, arg, value) ==
    /\ last' = [op |-> op, arg |-> arg]
    /\ resp' = value
    /\ UNCHANGED <<overflow_checks, threadvars>>

\* The engine after FerrumSearch::new(), with no call begun.
InitEngine ==
    /\ documents = NewEngine.documents
    /\ inverted_index = NewEngine.inverted_index
    /\ word_frequencies = NewEngine.word_frequencies
    /\ document_lengths = NewEngine.document_lengths
    /\ total_documents = NewEngine.total_documents
    /\ last = [op |-> "new", arg |-> None]
    /\ resp = Ok(None)
    /\ rd = [l \in Locks |-> {}]
    /\ wr = [l \in Locks |-> None]
    /\ pc = [t \in Threads |-> "idle"]
    /\ call = [t \in Threads |-> NoCall]
    /\ tmp = [t \in Threads |-> NoLocals]
    /\ ret = [t \in Threads |-> Ok(None)]

\* Calls made one at a time never wait for a lock, whatever its policy.
Init == InitEngine /\ overflow_checks \in BOOLEAN /\ writer_priority = FALSE

AddDocument ==
    \E document \in Documents :
      \E uuid \in (IF document.id = "" THEN Uuids ELSE {CHOOSE u \in Uuids : TRUE}) :
        /\ SetEngine(add_document(Engine, document, uuid))
        /\ Returned("add_document", document, Ok(None))

RemoveDocument ==
    \E doc_id \in AllIds :
        /\ SetEngine(remove_document(Engine, doc_id))
        /\ Returned("remove_document", doc_id, Ok(None))

BulkImport ==
    \E n \in 0..MaxBulk :
        \E docs \in [1..n -> BulkDocuments] :
          \E uuids \in [1..n -> Uuids] :
            \* an id is drawn only for the documents that come without one
            /\ \A i \in 1..n : docs[i].id # "" => uuids[i] = CHOOSE u \in Uuids : TRUE
            /\ SetEngine(bulk_import(Engine, docs, uuids))
            /\ Returned("bulk_import", docs, Ok(n))

ClearIndex ==
    /\ SetEngine(clear_index(Engine))
    /\ Returned("clear_index", None, Ok(None))

Search ==
    \E query \in Queries :
        \E iter \in Perms(DOMAIN Scores(Engine, query)) :
            /\ UNCHANGED engine
            /\ Returned("search", query, search(Engine, query, iter, overflow_checks))

Next ==
    \/ AddDocument
    \/ RemoveDocument
    \/ BulkImport
    \/ ClearIndex
    \/ Search

Spec == Init /\ [][Next]_vars

\* The writer alone: the indexing operations, in a build without overflow checks
\* (no indexing operation does arithmetic that overflows).
InitIndexing == Init /\ ~overflow_checks

NextIndexing ==
    \/ AddDocument
    \/ RemoveDocument
    \/ BulkImport
    \/ ClearIndex

SpecIndexing == InitIndexing /\ [][NextIndexing]_vars

\* The read-only lookups, called one at a time between the indexing operations.
MaxLimit == 3
Prefixes == {<<>>, <<"R">>, <<"r", "u">>, <<"w">>}

Autocomplete ==
    \E prefix \in Prefixes : \E limit \in 0..MaxLimit :
        \E iter \in Perms(DOMAIN inverted_index) :
            /\ UNCHANGED engine
            /\ Returned("autocomplete", [prefix |-> prefix, limit |-> limit],
                        Ok(autocomplete(inverted_index, prefix, limit, iter)))

Suggest ==
    \E text \in QueryTexts :
        /\ UNCHANGED engine
        /\ Returned("suggest", text, Ok(suggest(Engine, text)))

GetStats ==
    /\ UNCHANGED engine
    /\ Returned("get_stats", None, Ok(get_stats(total_documents)))

NextLookup ==
    \/ AddDocument
    \/ RemoveDocument
    \/ BulkImport
    \/ ClearIndex
    \/ Autocomplete
    \/ Suggest
    \/ GetStats

SpecLookup == InitIndexing /\ [][NextLookup]_vars

\* The tokenizer alone, applied to every text of up to MaxTextLen characters
\* over a letter, a capital, a punctuation mark and a space.
MaxTextLen == 5
TextAlphabet == {"a", "R", "-", " "}
Texts == UNION {[1..n -> TextAlphabet] : n \in 0..MaxTextLen}

Tokenize ==
    \E text \in Texts :
        /\ UNCHANGED engine
        /\ Returned("tokenize", text, Ok(tokenize(text)))

NextTokenize == Tokenize

SpecTokenize == InitIndexing /\ [][NextTokenize]_vars

(***************************************************************************)
(* Calls made concurrently.  A step is what a thread does from one lock    *)
(* acquisition to the next; a thread at a step that acquires a lock has    *)
(* called read() or write() and waits until the lock is granted.           *)
(***************************************************************************)
DocA == [id |-> "d1", title |-> TxtRust, content |-> TxtRustWeb, metadata |-> MetaWeb,
         timestamp |-> 0]
DocB == [id |-> "d1", title |-> TxtWeb, content |-> TxtEmpty, metadata |-> EmptyMap,
         timestamp |-> 0]
ThreadQuery ==
    [query |-> TxtRustWeb, fuzzy |-> FALSE, page |-> None, per_page |-> None,
     filters |-> None, sort_by |-> None, highlight |-> TRUE]
TxtPrefix == <<"R">>

\* The calls each thread makes, any number of times.
Menu(t) ==
    CASE t = "w1" -> {MkCall("add_document", Some(DocA), None, None, None, None),
                      MkCall("clear_index", None, None, None, None, None)}
      [] t = "w2" -> {MkCall("add_document", Some(DocB), None, None, None, None),
                      MkCall("remove_document", None, Some("d1"), None, None, None)}
      [] t = "r1" -> {MkCall("search", None, None, Some(ThreadQuery), None, None),
                      MkCall("get_stats", None, None, None, None, None)}
      [] t = "r2" -> {MkCall("suggest", None, None, None, Some(TxtRust), None),
                      MkCall("autocomplete", None, None, None, Some(TxtPrefix), Some(1))}

\* Where a call begins.
FirstStep(op) ==
    CASE op = "add_document" -> "add_docs"
      [] op = "remove_document" -> "rm_docs"
      [] op = "clear_index" -> "clr_docs"
      [] op = "search" -> "s_docs"
      [] op = "suggest" -> "g_index"
      [] op = "autocomplete" -> "ac_index"
      [] op = "get_stats" -> "st_total"

\* The steps at which a thread asks for the write lock of a table.
WantsWrite(l) ==
    CASE l = "documents" -> {"add_docs", "rm_docs", "clr_docs"}
      [] l = "total_documents" -> {"add_total", "rm_total", "clr_total"}
      [] l = "inverted_index" -> {"add_index", "rm_index", "clr_index"}
      [] l = "word_frequencies" -> {"add_freq", "rm_freq", "clr_freq"}
      [] l = "document_lengths" -> {"add_len", "clr_len"}

WaitingWriters(l) == {t \in Threads : pc[t] \in WantsWrite(l)}

\* RwLock::read is granted: no writer holds the lock and, where the platform
\* gives writers priority, none waits for it.
CanRead(l) == wr[l] = None /\ (writer_priority => WaitingWriters(l) = {})

\* RwLock::write is granted.
CanWrite(l) == wr[l] = None /\ rd[l] = {}

Arg(opt) == CHOOSE x \in opt : TRUE

\* The postings the search of thread t scores; the tables they come from are
\* read-locked while it scores.
PostingsOf(t) ==
    ScoredPostings(tokenize(Arg(call[t].query).query), Arg(call[t].query).fuzzy, Engine)

\* The lock a thread asks for at its next step is granted, or the step takes
\* none.  search reads document_lengths once per posting it scores, and
\* suggest reads documents only while ids remain to look up.
Granted(t) ==
    CASE pc[t] \in WantsWrite("documents") -> CanWrite("documents")
      [] pc[t] \in WantsWrite("total_documents") -> CanWrite("total_documents")
      [] pc[t] \in WantsWrite("inverted_index") -> CanWrite("inverted_index")
      [] pc[t] \in WantsWrite("word_frequencies") -> CanWrite("word_frequencies")
      [] pc[t] \in WantsWrite("document_lengths") -> CanWrite("document_lengths")
      [] pc[t] = "s_docs" ->
            tokenize(Arg(call[t].query).query) = <<>> \/ CanRead("documents")
      [] pc[t] = "s_index" -> CanRead("inverted_index")
      [] pc[t] = "s_freq" -> CanRead("word_frequencies")
      [] pc[t] = "s_total" -> CanRead("total_documents")
      [] pc[t] = "s_score" ->
            Len(tmp[t].lens) = Len(PostingsOf(t)) \/ CanRead("document_lengths")
      [] pc[t] = "g_index" -> CanRead("inverted_index")
      [] pc[t] = "g_docs" -> tmp[t].ids = <<>> \/ CanRead("documents")
      [] pc[t] = "ac_index" -> CanRead("inverted_index")
      [] pc[t] = "st_total" -> CanRead("total_documents")
      [] OTHER -> FALSE

Goto(t, label) == pc' = [pc EXCEPT ![t] = label]
Return(t, value) ==
    /\ pc' = [pc EXCEPT ![t] = "idle"]
    /\ ret' = [ret EXCEPT ![t] = value]
    /\ call' = [call EXCEPT ![t] = NoCall]
    /\ tmp' = [tmp EXCEPT ![t] = NoLocals]
ReadLock(t, l) == rd' = [rd EXCEPT ![l] = @ \cup {t}]
ReadUnlock(t, ls) == rd' = [l \in Locks |-> IF l \in ls THEN rd[l] \ {t} ELSE rd[l]]
WriteLock(t, l) == wr' = [wr EXCEPT ![l] = Some(t)]
WriteUnlock(ls) == wr' = [l \in Locks |-> IF l \in ls THEN None ELSE wr[l]]

seqvars == <<overflow_checks, last, resp, writer_priority>>

\* A thread begins the call c; add_document gives a document without id a
\* fresh one before it takes any lock.
Begin(t, c) ==
    /\ pc[t] = "idle"
    /\ \E uuid \in Uuids :
        call' = [call EXCEPT ![t] =
                    IF c.op = "add_document" /\ Arg(c.doc).id = ""
                    THEN [c EXCEPT !.doc = Some([Arg(c.doc) EXCEPT !.id = uuid])]
                    ELSE c]
    /\ Goto(t, FirstStep(c.op))
    /\ tmp' = [tmp EXCEPT ![t] = NoLocals]
    /\ ret' = [ret EXCEPT ![t] = Ok(None)]
    /\ UNCHANGED <<engine, seqvars, rd, wr>>

\* A thread begins one of its calls.
Start(t) == \E c \in Menu(t) : Begin(t, c)

\* A thread begins an add_document call.
StartAdd(t) == \E c \in Menu(t) : c.op = "add_document" /\ Begin(t, c)

\* add_document: documents.write(); contains_key; insert.  The guard is kept
\* for total_documents when the id is new and dropped otherwise.
AddDocs(t) ==
    /\ pc[t] = "add_docs" /\ Granted(t)
    /\ LET document == Arg(call[t].doc)
           is_new == document.id \notin DOMAIN documents
       IN /\ documents' = Put(documents, document.id, document)
          /\ tmp' = [tmp EXCEPT ![t].flag = is_new]
          /\ IF is_new THEN WriteLock(t, "documents") /\ Goto(t, "add_total")
                       ELSE UNCHANGED wr /\ Goto(t, "add_index")
    /\ UNCHANGED <<inverted_index, word_frequencies, document_lengths, total_documents,
                   seqvars, rd, call, ret>>

\* add_document: total_documents.write(); *total += 1; both guards dropped.
AddTotal(t) ==
    /\ pc[t] = "add_total" /\ Granted(t)
    /\ total_documents' = total_documents + 1
    /\ WriteUnlock({"documents"})
    /\ Goto(t, "add_index")
    /\ UNCHANGED <<documents, inverted_index, word_frequencies, document_lengths,
                   seqvars, rd, call, tmp, ret>>

\* add_document: inverted_index.write().
AddIndexLock(t) ==
    /\ pc[t] = "add_index" /\ Granted(t)
    /\ WriteLock(t, "inverted_index")
    /\ Goto(t, "add_freq")
    /\ UNCHANGED <<engine, seqvars, rd, call, tmp, ret>>

\* add_document: word_frequencies.write().
AddFreqLock(t) ==
    /\ pc[t] = "add_freq" /\ Granted(t)
    /\ WriteLock(t, "word_frequencies")
    /\ Goto(t, "add_len")
    /\ UNCHANGED <<engine, seqvars, rd, call, tmp, ret>>

\* add_document: document_lengths.write(); purge and re-index; return.
AddLen(t) ==
    /\ pc[t] = "add_len" /\ Granted(t)
    /\ LET document == Arg(call[t].doc)
           e == AddIndex(Engine, document.id, tokenize(DocText(document)))
       IN /\ inverted_index' = e.inverted_index
          /\ word_frequencies' = e.word_frequencies
          /\ document_lengths' = e.document_lengths
    /\ WriteUnlock({"inverted_index", "word_frequencies"})
    /\ Return(t, Ok(None))
    /\ UNCHANGED <<documents, total_documents, seqvars, rd>>

\* remove_document: documents.write(); remove.
RmDocs(t) ==
    /\ pc[t] = "rm_docs" /\ Granted(t)
    /\ LET doc_id == Arg(call[t].id)
           was_some == doc_id \in DOMAIN documents
       IN /\ documents' = Del(documents, doc_id)
          /\ tmp' = [tmp EXCEPT ![t].flag = was_some]
          /\ IF was_some THEN WriteLock(t, "documents") /\ Goto(t, "rm_total")
                         ELSE UNCHANGED wr /\ Goto(t, "rm_index")
    /\ UNCHANGED <<inverted_index, word_frequencies, document_lengths, total_documents,
                   seqvars, rd, call, ret>>

\* remove_document: total_documents.write(); saturating_sub(1); guards dropped.
RmTotal(t) ==
    /\ pc[t] = "rm_total" /\ Granted(t)
    /\ total_documents' = IF total_documents = 0 THEN 0 ELSE total_documents - 1
    /\ WriteUnlock({"documents"})
    /\ Goto(t, "rm_index")
    /\ UNCHANGED <<documents, inverted_index, word_frequencies, document_lengths,
                   seqvars, rd, call, tmp, ret>>

\* remove_document: inverted_index.write().
RmIndexLock(t) ==
    /\ pc[t] = "rm_index" /\ Granted(t)
    /\ WriteLock(t, "inverted_index")
    /\ Goto(t, "rm_freq")
    /\ UNCHANGED <<engine, seqvars, rd, call, tmp, ret>>

\* remove_document: word_frequencies.write(); purge; return.
RmFreq(t) ==
    /\ pc[t] = "rm_freq" /\ Granted(t)
    /\ LET e == RemoveIndex(Engine, Arg(call[t].id))
       IN /\ inverted_index' = e.inverted_index
          /\ word_frequencies' = e.word_frequencies
    /\ WriteUnlock({"inverted_index"})
    /\ Return(t, Ok(None))
    /\ UNCHANGED <<documents, document_lengths, total_documents, seqvars, rd>>

\* clear_index: five statements, each takes one write lock, assigns, drops it.
ClrDocs(t) ==
    /\ pc[t] = "clr_docs" /\ Granted(t)
    /\ documents' = EmptyMap
    /\ Goto(t, "clr_index")
    /\ UNCHANGED <<inverted_index, word_frequencies, document_lengths, total_documents,
                   seqvars, rd, wr, call, tmp, ret>>

ClrIndex(t) ==
    /\ pc[t] = "clr_index" /\ Granted(t)
    /\ inverted_index' = EmptyMap
    /\ Goto(t, "clr_freq")
    /\ UNCHANGED <<documents, word_frequencies, document_lengths, total_documents,
                   seqvars, rd, wr, call, tmp, ret>>

ClrFreq(t) ==
    /\ pc[t] = "clr_freq" /\ Granted(t)
    /\ word_frequencies' = EmptyMap
    /\ Goto(t, "clr_len")
    /\ UNCHANGED <<documents, inverted_index, document_lengths, total_documents,
                   seqvars, rd, wr, call, tmp, ret>>

ClrLen(t) ==
    /\ pc[t] = "clr_len" /\ Granted(t)
    /\ document_lengths' = EmptyMap
    /\ Goto(t, "clr_total")
    /\ UNCHANGED <<documents, inverted_index, word_frequencies, total_documents,
                   seqvars, rd, wr, call, tmp, ret>>

ClrTotal(t) ==
    /\ pc[t] = "clr_total" /\ Granted(t)
    /\ total_documents' = 0
    /\ Return(t, Ok(None))
    /\ UNCHANGED <<documents, inverted_index, word_frequencies, document_lengths,
                   seqvars, rd, wr>>

\* search: a query without tokens returns at once; otherwise documents.read().
SearchDocs(t) ==
    /\ pc[t] = "s_docs" /\ Granted(t)
    /\ IF tokenize(Arg(call[t].query).query) = <<>>
       THEN /\ Return(t, search(Engine, Arg(call[t].query), <<>>, overflow_checks))
            /\ UNCHANGED rd
       ELSE /\ ReadLock(t, "documents")
            /\ Goto(t, "s_index")
            /\ UNCHANGED <<call, tmp, ret>>
    /\ UNCHANGED <<engine, seqvars, wr>>

\* search: inverted_index.read().
SearchIndex(t) ==
    /\ pc[t] = "s_index" /\ Granted(t)
    /\ ReadLock(t, "inverted_index")
    /\ Goto(t, "s_freq")
    /\ UNCHANGED <<engine, seqvars, wr, call, tmp, ret>>

\* search: word_frequencies.read().
SearchFreq(t) ==
    /\ pc[t] = "s_freq" /\ Granted(t)
    /\ ReadLock(t, "word_frequencies")
    /\ Goto(t, "s_total")
    /\ UNCHANGED <<engine, seqvars, wr, call, tmp, ret>>

\* search: total_docs = *total_documents.read().
SearchTotal(t) ==
    /\ pc[t] = "s_total" /\ Granted(t)
    /\ tmp' = [tmp EXCEPT ![t].n = total_documents]
    /\ Goto(t, "s_score")
    /\ UNCHANGED <<engine, seqvars, rd, wr, call, ret>>

\* search: the scoring loop reaches a posting it scores:
\* document_lengths.read().get(&doc_id), the guard dropped at once.
SearchLength(t) ==
    /\ pc[t] = "s_score" /\ Granted(t)
    /\ Len(tmp[t].lens) < Len(PostingsOf(t))
    /\ LET doc_id == PostingsOf(t)[Len(tmp[t].lens) + 1]
       IN tmp' = [tmp EXCEPT ![t].lens = Append(@, DocLen(document_lengths, doc_id))]
    /\ UNCHANGED <<engine, seqvars, rd, wr, pc, call, ret>>

\* search: after the last posting: filter, sort, paginate, project, return;
\* the three guards are dropped.
SearchScore(t) ==
    /\ pc[t] = "s_score" /\ Granted(t)
    /\ Len(tmp[t].lens) = Len(PostingsOf(t))
    /\ LET query == Arg(call[t].query)
           e == [Engine EXCEPT !.total_documents = tmp[t].n]
           scores == ScoresRead(e, query, tmp[t].lens)
       IN \E iter \in Perms(DOMAIN scores) :
             Return(t, Respond(e, query, scores, iter, overflow_checks))
    /\ ReadUnlock(t, {"documents", "inverted_index", "word_frequencies"})
    /\ UNCHANGED <<engine, seqvars, wr>>

\* suggest: inverted_index.read(); the fuzzy matches of each token.
SuggestIndex(t) ==
    /\ pc[t] = "g_index" /\ Granted(t)
    /\ ReadLock(t, "inverted_index")
    /\ tmp' = [tmp EXCEPT ![t].ids = SuggestLookups(inverted_index, tokenize(Arg(call[t].text)))]
    /\ Goto(t, "g_docs")
    /\ UNCHANGED <<engine, seqvars, wr, call, ret>>

\* suggest: one documents.read() per looked-up id; after the last, truncate(5)
\* and return.
SuggestDocs(t) ==
    /\ pc[t] = "g_docs" /\ Granted(t)
    /\ IF tmp[t].ids = <<>>
       THEN /\ Return(t, Ok(SubSeq(tmp[t].out, 1, Min(MaxSuggestions, Len(tmp[t].out)))))
            /\ ReadUnlock(t, {"inverted_index"})
       ELSE /\ LET doc_id == Head(tmp[t].ids)
                   found == IF doc_id \in DOMAIN documents
                            THEN <<documents[doc_id].title>> ELSE <<>>
               IN tmp' = [tmp EXCEPT ![t].ids = Tail(@), ![t].out = @ \o found]
            /\ UNCHANGED <<pc, call, ret, rd>>
    /\ UNCHANGED <<engine, seqvars, wr>>

\* autocomplete: inverted_index.read() for the whole call.
AutocompleteIndex(t) ==
    /\ pc[t] = "ac_index" /\ Granted(t)
    /\ \E iter \in Perms(DOMAIN inverted_index) :
          Return(t, Ok(autocomplete(inverted_index, Arg(call[t].text), Arg(call[t].limit), iter)))
    /\ UNCHANGED <<engine, seqvars, rd, wr>>

\* get_stats: total_documents.read().
StatsTotal(t) ==
    /\ pc[t] = "st_total" /\ Granted(t)
    /\ Return(t, Ok(get_stats(total_documents)))
    /\ UNCHANGED <<engine, seqvars, rd, wr>>

InitThreads == InitEngine /\ overflow_checks = FALSE /\ writer_priority \in BOOLEAN

NextThreads ==
    \E t \in Threads :
        \/ Start(t)
        \/ AddDocs(t) \/ AddTotal(t) \/ AddIndexLock(t) \/ AddFreqLock(t) \/ AddLen(t)
        \/ RmDocs(t) \/ RmTotal(t) \/ RmIndexLock(t) \/ RmFreq(t)
        \/ ClrDocs(t) \/ ClrIndex(t) \/ ClrFreq(t) \/ ClrLen(t) \/ ClrTotal(t)
        \/ SearchDocs(t) \/ SearchIndex(t) \/ SearchFreq(t) \/ SearchTotal(t)
        \/ SearchLength(t) \/ SearchScore(t)
        \/ SuggestDocs(t) \/ SuggestIndex(t)
        \/ AutocompleteIndex(t)
        \/ StatsTotal(t)

SpecThreads == InitThreads /\ [][NextThreads]_vars

\* Two threads that only call add_document, one with DocA and one with DocB.
NextAdds ==
    \E t \in Writers :
        \/ StartAdd(t)
        \/ AddDocs(t) \/ AddTotal(t) \/ AddIndexLock(t) \/ AddFreqLock(t) \/ AddLen(t)

SpecAdds == InitThreads /\ [][NextAdds]_vars

(***************************************************************************)
(* Properties.                                                             *)
(***************************************************************************)
TokensOf(doc) == Range(tokenize(DocText(doc)))
QueryTokens(query) == Range(tokenize(query.query))
ResultIds(response) == {response.results[i].id : i \in 1..Len(response.results)}
SearchReturned == last.op = "search" /\ resp.tag = "ok"

\* C1: a fuzzy search without filters counts and returns every indexed document
\* that has a token within edit distance 1 of some query token.
C1_FuzzyFindsNeighbours ==
    (SearchReturned /\ last.arg.fuzzy /\ last.arg.filters = None) =>
        \A d \in DOMAIN documents :
            (\E q \in QueryTokens(last.arg), w \in TokensOf(documents[d]) :
                 edit_distance(q, w) <= 1)
            => d \in ResultIds(resp.value) /\ resp.value.total_hits >= 1

\* The documents that share at least one token with the query.
SharingDocs(query) ==
    {d \in DOMAIN documents : TokensOf(documents[d]) \cap QueryTokens(query) # {}}

\* C2: an exact search without filters that returns a response reports as
\* total_hits the number of indexed documents that share a token with the
\* query, and returns only such documents.
C2_ExactHitsAreSharingDocs ==
    (SearchReturned /\ ~last.arg.fuzzy /\ last.arg.filters = None) =>
        /\ resp.value.total_hits = Cardinality(SharingDocs(last.arg))
        /\ ResultIds(resp.value) \subseteq SharingDocs(last.arg)

\* C2 witness: an exact search over two documents returned the one that shares
\* a token with the query and not the other.
C2_Witness ==
    /\ SearchReturned /\ ~last.arg.fuzzy /\ last.arg.filters = None
    /\ Cardinality(DOMAIN documents) = 2
    /\ resp.value.total_hits = 1
    /\ Len(resp.value.results) = 1

\* The id a document is stored under when Uuid::new_v4() returns uuid.
StoredId(document, uuid) == IF document.id = "" THEN uuid ELSE document.id

\* C3 as claimed: for every Document, adding it twice in a row leaves the engine
\* as adding it once does.
C3_AddTwiceIsAddOnce ==
    \A document \in Documents : \A u1, u2 \in Uuids :
        add_document(add_document(Engine, document, u1), document, u2)
            = add_document(Engine, document, u1)

\* C3 amended: for every Document with a non-empty id, adding it twice in a row
\* leaves every table of the engine exactly as adding it once does.
C3_AddTwiceIsAddOnceGivenId ==
    \A document \in Documents : \A u1, u2 \in Uuids :
        document.id # "" =>
            add_document(add_document(Engine, document, u1), document, u2)
                = add_document(Engine, document, u1)

\* C3 witness: add_document has just stored a document under a caller-chosen id
\* in an index where a posting list also holds another document.
C3_Witness ==
    /\ last.op = "add_document" /\ last.arg.id # ""
    /\ documents[last.arg.id] = last.arg
    /\ \E t \in DOMAIN inverted_index :
           last.arg.id \in Range(inverted_index[t]) /\ Cardinality(Range(inverted_index[t])) > 1

\* C4: where id x is absent, add_document of a document with id x followed by
\* remove_document(x) restores all five tables.
C4_AddThenRemoveRestores ==
    \A document \in Documents : \A uuid \in Uuids :
        StoredId(document, uuid) \notin DOMAIN documents =>
            remove_document(add_document(Engine, document, uuid), StoredId(document, uuid))
                = Engine

\* C5: the document table, the term-frequency table and the document-length
\* table have the same keys.
C5_SameKeys ==
    /\ DOMAIN documents = DOMAIN word_frequencies
    /\ DOMAIN word_frequencies = DOMAIN document_lengths

\* C6: total_documents equals the number of entries of the document table.
C6_CardinalityMatchesTable == total_documents = Cardinality(DOMAIN documents)

\* C6 witness: a removal has just returned and left two documents.
C6_Witness ==
    /\ last.op = "remove_document"
    /\ last.arg \in DOMAIN document_lengths
    /\ total_documents = 2

\* C7: every id in a posting list is a key of the document table, and no
\* posting list is empty.
C7_NoDanglingPostings ==
    \A t \in DOMAIN inverted_index :
        /\ inverted_index[t] # <<>>
        /\ Range(inverted_index[t]) \subseteq DOMAIN documents

\* C7 witness: remove_document has just removed a document that had been
\* indexed, and postings of other documents remain.
C7_Witness ==
    /\ last.op = "remove_document"
    /\ last.arg \in DOMAIN document_lengths
    /\ document_lengths[last.arg] > 0
    /\ last.arg \notin DOMAIN documents
    /\ inverted_index # EmptyMap

\* C10: two consecutive searches with the same query on an unchanged engine
\* return the same thing.
C10_SearchDeterministic ==
    [][(last.op = "search" /\ last'.op = "search" /\ last'.arg = last.arg /\ engine' = engine)
          => resp' = resp]_vars

\* What add_document calls made one after another, in any order and number,
\* leave of a new engine: the last document decides.
SerialAdds ==
    LET a == add_document(NewEngine, DocA, "u1")
        b == add_document(NewEngine, DocB, "u1")
    IN {NewEngine, a, b,
        add_document(a, DocA, "u1"), add_document(a, DocB, "u1"),
        add_document(b, DocA, "u1"), add_document(b, DocB, "u1")}

\* C8: when add_document calls for one id with different content run in two
\* threads and all of them have returned, the engine is in a state that the
\* calls made one after another produce.
C8_ConcurrentAddsSerialise ==
    (\A t \in Writers : pc[t] = "idle") => Engine \in SerialAdds

\* C9: no deadlock: while a call is in progress, some call in progress can
\* take its next step, whether or not waiting writers hold back new readers.
C9_NoDeadlock ==
    (\E t \in Threads : pc[t] # "idle") => \E u \in Threads : Granted(u)

\* The query with an explicit page and page size.
PageQuery(query, page, per_page) ==
    [query EXCEPT !.page = Some(page), !.per_page = Some(per_page)]

\* The queries that keep the default paging.
UnpagedQueries == {q \in Queries : q.page = None /\ q.per_page = None}

RECURSIVE Concat(_)
Concat(seqs) == IF seqs = <<>> THEN <<>> ELSE Head(seqs) \o Concat(Tail(seqs))

\* The results of pages 1..total_pages of a query with page size k, one search
\* per page, the search of page p iterating its score map in the order iters[p].
Pages(e, query, k, iters) ==
    [p \in 1..Len(iters) |->
        search(e, PageQuery(query, p, k), iters[p], FALSE).value.results]

\* a >= b for scores, as partial_cmp decides it.
FGeq(a, b) == ~a.nan /\ ~b.nan /\ ~FLess(a, b)

\* C11: on an unchanged engine, for every query and page size k >= 1, the
\* results of pages 1..total_pages put one after another are total_hits
\* results, every scored document once, by non-increasing score, and every
\* page but the last holds k results.
C11_PagesPartitionHits ==
    \A query \in UnpagedQueries : \A k \in 1..MaxPage :
        LET scores == Scores(Engine, query)
            total_hits == Cardinality(DOMAIN scores)
            total_pages == (total_hits + k - 1) \div k
        IN \A iters \in [1..total_pages -> Perms(DOMAIN scores)] :
            LET pages == Pages(Engine, query, k, iters)
                all == Concat(pages)
            IN /\ Len(all) = total_hits
               /\ {all[i].id : i \in 1..Len(all)} = DOMAIN scores
               /\ \A i \in 1..Len(all) - 1 : FGeq(all[i].score, all[i + 1].score)
               /\ \A p \in 1..total_pages - 1 : Len(pages[p]) = k

\* start = (page - 1) * per_page of a query.
StartOf(query) ==
    (unwrap_or(query.page, DefaultPage) - 1) * unwrap_or(query.per_page, DefaultPerPage)

\* The number of documents in the score map of a query.
HitsOf(query) == Cardinality(DOMAIN Scores(Engine, query))

\* C12: a search with at least one token whose page starts at or after the
\* last hit returns Ok with no results and with total_hits and total_pages as
\* for any other page; end - start neither underflows nor aborts.
C12_PastLastPageIsEmpty ==
    (last.op = "search" /\ QueryTokens(last.arg) # {}
        /\ StartOf(last.arg) >= HitsOf(last.arg)) =>
        /\ resp.tag = "ok"
        /\ resp.value.results = <<>>
        /\ resp.value.total_hits = HitsOf(last.arg)
        /\ resp.value.total_pages =
              (HitsOf(last.arg) + resp.value.per_page - 1) \div resp.value.per_page

\* The document is in the table and carries every (key, value) of the filters.
PassesFilters(d, filters) ==
    filters = None \/
        /\ d \in DOMAIN documents
        /\ \A k \in DOMAIN Arg(filters) :
              k \in DOMAIN documents[d].metadata
                  /\ documents[d].metadata[k] = Arg(filters)[k]

\* The documents with a scored posting for the query that pass its filters.
ScoredDocs(query) ==
    {d \in Range(ScoredPostings(tokenize(query.query), query.fuzzy, Engine)) :
        PassesFilters(d, query.filters)}

\* C13 as claimed: total_hits counts exactly the documents whose accumulated
\* score is above zero; a document with a zero or negative score is not in
\* the score map.
C13_HitsHavePositiveScore ==
    SearchReturned =>
        LET scores == Scores(Engine, last.arg)
        IN /\ \A d \in DOMAIN scores : FLess(Num(0), scores[d])
           /\ resp.value.total_hits =
                 Cardinality({d \in ScoredDocs(last.arg) : FLess(Num(0), scores[d])})

\* C13 amended: total_hits counts the documents that have a scored posting
\* for some query token and pass the filters, whatever their accumulated
\* score is.
C13_HitsAreScoredDocs ==
    SearchReturned =>
        /\ resp.value.total_hits = Cardinality(ScoredDocs(last.arg))
        /\ DOMAIN Scores(Engine, last.arg) = ScoredDocs(last.arg)

\* C13 witness: a search counted and returned a document whose accumulated
\* score is below zero.
C13_Witness ==
    /\ SearchReturned
    /\ resp.value.total_hits >= 1
    /\ \E i \in 1..Len(resp.value.results) : FLess(resp.value.results[i].score, Num(0))

\* C14: remove_document of an id that is not in the document table returns Ok
\* and leaves all five tables, the cardinality included, as they were.
C14_RemoveAbsentChangesNothing ==
    [][(last'.op = "remove_document" /\ last'.arg \notin DOMAIN documents)
          => (engine' = engine /\ resp' = Ok(None))]_vars

\* C14 witness: remove_document has returned for an id that was never added
\* since the engine was last empty, while other documents are indexed.
C14_Witness ==
    /\ last.op = "remove_document"
    /\ last.arg \notin DOMAIN document_lengths
    /\ total_documents >= 1
    /\ inverted_index # EmptyMap

\* The inverted-index keys that start with the lowercased prefix.
PrefixMatches(prefix) ==
    {w \in DOMAIN inverted_index : starts_with(w, to_lowercase(prefix))}

\* C15: autocomplete(prefix, limit) returns min(limit, m) of the m index keys
\* that start with the lowercased prefix, in strictly ascending order (so
\* without duplicates), and all of them when limit >= m.
C15_AutocompleteLimitedSortedMatches ==
    last.op = "autocomplete" =>
        LET out == resp.value
            matches == PrefixMatches(last.arg.prefix)
        IN /\ Len(out) = Min(last.arg.limit, Cardinality(matches))
           /\ Range(out) \subseteq matches
           /\ \A i \in 1..Len(out) - 1 : StrLess(out[i], out[i + 1])
           /\ last.arg.limit >= Cardinality(matches) => Range(out) = matches

\* C15 witness: autocomplete returned fewer keys than match, because of limit.
C15_Witness ==
    /\ last.op = "autocomplete"
    /\ Len(resp.value) >= 1
    /\ Len(resp.value) < Cardinality(PrefixMatches(last.arg.prefix))

\* C16: with filters, every document counted in total_hits and every result
\* carries every (key, value) of the filters; scored documents that lack a
\* key, have another value or are not in the table are left out before
\* total_hits is taken.
C16_FiltersRestrictHits ==
    (SearchReturned /\ last.arg.filters # None) =>
        LET wanted == Arg(last.arg.filters)
            unfiltered == ScoredDocs([last.arg EXCEPT !.filters = None])
            kept == {d \in unfiltered \cap DOMAIN documents :
                        \A k \in DOMAIN wanted :
                            /\ k \in DOMAIN documents[d].metadata
                            /\ documents[d].metadata[k] = wanted[k]}
        IN /\ resp.value.total_hits = Cardinality(kept)
           /\ ResultIds(resp.value) \subseteq kept
           /\ \A i \in 1..Len(resp.value.results) : \A k \in DOMAIN wanted :
                 /\ k \in DOMAIN resp.value.results[i].metadata
                 /\ resp.value.results[i].metadata[k] = wanted[k]

\* C16 witness: a filtered search returned a document and left out another
\* that was scored.
C16_Witness ==
    /\ SearchReturned /\ last.arg.filters # None
    /\ Len(resp.value.results) >= 1
    /\ resp.value.total_hits < Cardinality(ScoredDocs([last.arg EXCEPT !.filters = None]))

\* The tokenizer as described: lowercase, put one space in place of every
\* character that is neither alphanumeric nor whitespace, split on whitespace,
\* drop the words of length <= 2.
tokenize_replacing(text) ==
    LET lowered == to_lowercase(text)
        spaced == [i \in 1..Len(lowered) |->
                      IF is_alphanumeric(lowered[i]) \/ is_whitespace(lowered[i])
                      THEN lowered[i] ELSE " "]
    IN SelectSeq(split_whitespace(spaced, <<>>), LAMBDA w : Len(w) > MinWordLen)

\* C17: for every text, tokenize returns the tokens of the text in which each
\* character that is neither alphanumeric nor whitespace was replaced by one
\* space.
C17_TokenizeReplacesPunctuation ==
    last.op = "tokenize" => resp.value = tokenize_replacing(last.arg)

\* C18: for every token of a search, the df used in idf is the number of
\* distinct documents among the token's candidates and is at most the corpus
\* cardinality, and no score of the response is NaN; for exact and for fuzzy
\* searches.
C18_DfCountsDistinctDocs ==
    SearchReturned =>
        /\ \A token \in QueryTokens(last.arg) :
              LET matching == MatchingDocs(token, last.arg.fuzzy, inverted_index)
                  df == Len(matching)
              IN df = Cardinality(Range(matching)) /\ df <= total_documents
        /\ \A i \in 1..Len(resp.value.results) : ~resp.value.results[i].score.nan

\* The posting list of a token, empty when the token is not a key.
PostingList(t) == IF t \in DOMAIN inverted_index THEN inverted_index[t] ELSE <<>>

\* The tokens of the stored documents and the keys of the index.
KnownTokens ==
    DOMAIN inverted_index \cup UNION {TokensOf(documents[d]) : d \in DOMAIN documents}

\* C19: for every token t and id d, d occurs in the posting list of t as often
\* as t occurs among the tokens of the document stored under d (never when d is
\* not stored), and the keys of tf[d] are the distinct tokens of that
\* document.
C19_IndexReflectsDocuments ==
    \A d \in AllIds \cup DOMAIN word_frequencies :
        /\ \A t \in KnownTokens :
              Count(PostingList(t), d) =
                  IF d \in DOMAIN documents
                  THEN Count(tokenize(DocText(documents[d])), t) ELSE 0
        /\ IF d \in DOMAIN documents
           THEN /\ d \in DOMAIN word_frequencies
                /\ DOMAIN word_frequencies[d] = TokensOf(documents[d])
           ELSE d \notin DOMAIN word_frequencies

\* C19 witness: add_document has just indexed a document in which a token
\* occurs twice, and that token's posting list also holds another document.
C19_Witness ==
    /\ last.op = "add_document"
    /\ \E d \in DOMAIN documents : \E t \in TokensOf(documents[d]) :
          /\ Count(tokenize(DocText(documents[d])), t) = 2
          /\ Range(PostingList(t)) # {d}

\* C20: when add_document runs concurrently with remove_document of the same
\* id or with clear_index and every writing call has returned, every id in a
\* posting list or among the keys of the term-frequency table is a key of the
\* document table.
C20_NoDanglingAfterConcurrentWrites ==
    (\A t \in Writers : pc[t] = "idle") =>
        /\ \A token \in DOMAIN inverted_index :
              Range(inverted_index[token]) \subseteq DOMAIN documents
        /\ DOMAIN word_frequencies \subseteq DOMAIN documents

\* C21: when clear_index runs concurrently with add_document and every
\* writing call has returned, total_documents equals the number of entries
\* of the document table.
C21_CardinalityAfterConcurrentClear ==
    (\A t \in Writers : pc[t] = "idle") =>
        total_documents = Cardinality(DOMAIN documents)

\* C22: a search without filters for page 1 with per_page >= total_hits that
\* runs while other threads write returns as many results as it counts in
\* total_hits.
C22_SearchReturnsWhatItCounts ==
    [][\A t \in Threads :
          (pc[t] = "s_score" /\ pc'[t] = "idle"
              /\ Arg(call[t].query).filters = None
              /\ unwrap_or(Arg(call[t].query).page, DefaultPage) = 1
              /\ ret'[t].tag = "ok"
              /\ unwrap_or(Arg(call[t].query).per_page, DefaultPerPage)
                    >= ret'[t].value.total_hits)
          => Len(ret'[t].value.results) = ret'[t].value.total_hits]_vars

====
